---------------------------- MODULE Spec2Model ----------------------------
(***************************************************************************)
(* har2xss (src/main.go).  The file holds the two programs of the          *)
(* repository: the dump mode (lines 1-153: main, print, printParam,        *)
(* printParamRecurse, makeKey, isPrint) and the correlation mode (lines    *)
(* 155-351: main, search).                                                 *)
(*                                                                         *)
(* A Go string is a sequence of bytes (0..255).  The library calls the     *)
(* decoders rest on (encoding/base64 StdEncoding.DecodeString,             *)
(* encoding/json Unmarshal into map[string]RawMessage, []RawMessage and    *)
(* string, unicode.IsPrint, net/url Parse) are modelled by what they       *)
(* compute on such byte sequences.                                         *)
(***************************************************************************)
EXTENDS Integers, Sequences, FiniteSets, TLC

(***************************************************************************)
(* Bytes and text                                                          *)
(***************************************************************************)

\* The printable ASCII characters, code 32 first (code 96 is not written:
\* no text of the model holds it).
Ascii ==
  << " ", "!", "\"", "#", "$", "%", "&", "'", "(", ")", "*", "+", ",", "-", ".", "/",
     "0", "1", "2", "3", "4", "5", "6", "7", "8", "9", ":", ";", "<", "=", ">", "?",
     "@", "A", "B", "C", "D", "E", "F", "G", "H", "I", "J", "K", "L", "M", "N", "O",
     "P", "Q", "R", "S", "T", "U", "V", "W", "X", "Y", "Z", "[", "\\", "]", "^", "_",
     "(grave)", "a", "b", "c", "d", "e", "f", "g", "h", "i", "j", "k", "l", "m", "n", "o",
     "p", "q", "r", "s", "t", "u", "v", "w", "x", "y", "z", "{", "|", "}", "~" >>

\* The byte of a printable ASCII character.
Ord(c) == 31 + (CHOOSE k \in 1..Len(Ascii) : Ascii[k] = c)

\* The bytes of a text given as a tuple of characters.
Str(cs) == [k \in 1..Len(cs) |-> Ord(cs[k])]

\* The element of a one-element set.  Only({e(x) : x \in {v}}) computes v
\* once and gives e(v).
Only(S) == CHOOSE x \in S : TRUE

\* s[from..] (1-based), empty when from is past the end.
Drop(s, from) == SubSeq(s, from, Len(s))

\* strings.Contains(s, sub): sub occurs in s as a contiguous run of bytes.
Contains(s, sub) ==
  \E k \in 0..(Len(s) - Len(sub)) : SubSeq(s, k + 1, k + Len(sub)) = sub

\* fmt.Sprintf("%d", n) for n >= 0.
RECURSIVE Decimal(_)
Decimal(n) == IF n < 10 THEN <<48 + n>> ELSE Decimal(n \div 10) \o <<48 + (n % 10)>>

(***************************************************************************)
(* encoding/base64: StdEncoding.DecodeString                               *)
(***************************************************************************)

\* decodeMap of the standard alphabet: the 6-bit value of a byte, 255 for a
\* byte outside the alphabet.
B64Val(b) ==
  IF b >= 65 /\ b <= 90 THEN b - 65
  ELSE IF b >= 97 /\ b <= 122 THEN b - 71
  ELSE IF b >= 48 /\ b <= 57 THEN b + 4
  ELSE IF b = 43 THEN 62
  ELSE IF b = 47 THEN 63
  ELSE 255

PadChar == 61

\* The decoder skips CR and LF wherever they stand.
RECURSIVE StripNewlines(_)
StripNewlines(s) ==
  IF s = <<>> THEN <<>>
  ELSE IF Head(s) = 10 \/ Head(s) = 13 THEN StripNewlines(Tail(s))
  ELSE <<Head(s)>> \o StripNewlines(Tail(s))

\* The three bytes of four 6-bit values, cut to n bytes.
Quantum(a, b, c, d, n) ==
  LET val == a * 262144 + b * 4096 + c * 64 + d
  IN  SubSeq(<<val \div 65536, (val \div 256) % 256, val % 256>>, 1, n)

\* Decode(dst, src) from byte si on: one quantum of four characters per step.
\* The result is the bytes written so far and whether an error ended the
\* decoding: DecodeString returns dbuf[:n] together with err, so the bytes of
\* the quanta before the error are returned with it.
RECURSIVE B64From(_, _, _)
B64From(s, si, acc) ==
  LET n == Len(s) - si + 1
      v(k) == B64Val(s[si + k])
  IN  IF n = 0 THEN [bytes |-> acc, err |-> FALSE]
      ELSE IF v(0) = 255 THEN [bytes |-> acc, err |-> TRUE]
      ELSE IF n = 1 \/ v(1) = 255 THEN [bytes |-> acc, err |-> TRUE]
      ELSE IF n = 2 THEN [bytes |-> acc, err |-> TRUE]
      ELSE IF v(2) = 255 THEN
             \* "xx==": one byte, written even when garbage follows the padding
             IF s[si + 2] = PadChar /\ n >= 4 /\ s[si + 3] = PadChar
             THEN [bytes |-> acc \o Quantum(v(0), v(1), 0, 0, 1), err |-> n > 4]
             ELSE [bytes |-> acc, err |-> TRUE]
      ELSE IF n = 3 THEN [bytes |-> acc, err |-> TRUE]
      ELSE IF v(3) = 255 THEN
             \* "xxx=": two bytes
             IF s[si + 3] = PadChar
             THEN [bytes |-> acc \o Quantum(v(0), v(1), v(2), 0, 2), err |-> n > 4]
             ELSE [bytes |-> acc, err |-> TRUE]
      ELSE B64From(s, si + 4, acc \o Quantum(v(0), v(1), v(2), v(3), 3))

DecodeString(s) == Only({B64From(t, 1, <<>>) : t \in {StripNewlines(s)}})

(***************************************************************************)
(* unicode/utf8 and unicode.IsPrint                                        *)
(***************************************************************************)

RuneError == 65533

IsCont(s, k) == k <= Len(s) /\ s[k] >= 128 /\ s[k] <= 191

\* utf8.DecodeRune at byte k: the rune and its width; an invalid or cut
\* encoding is RuneError of width 1.
DecodeRune(s, k) ==
  LET b == s[k]
      bad == [r |-> RuneError, w |-> 1]
  IN  IF b < 128 THEN [r |-> b, w |-> 1]
      ELSE IF b >= 194 /\ b <= 223 THEN
             IF IsCont(s, k + 1) THEN [r |-> (b - 192) * 64 + (s[k + 1] - 128), w |-> 2]
             ELSE bad
      ELSE IF b >= 224 /\ b <= 239 THEN
             IF IsCont(s, k + 1) /\ IsCont(s, k + 2)
             THEN LET r == (b - 224) * 4096 + (s[k + 1] - 128) * 64 + (s[k + 2] - 128)
                  IN  IF r < 2048 \/ (r >= 55296 /\ r <= 57343) THEN bad
                      ELSE [r |-> r, w |-> 3]
             ELSE bad
      ELSE IF b >= 240 /\ b <= 244 THEN
             IF IsCont(s, k + 1) /\ IsCont(s, k + 2) /\ IsCont(s, k + 3)
             THEN LET r == (b - 240) * 262144 + (s[k + 1] - 128) * 4096
                             + (s[k + 2] - 128) * 64 + (s[k + 3] - 128)
                  IN  IF r < 65536 \/ r > 1114111 THEN bad ELSE [r |-> r, w |-> 4]
             ELSE bad
      ELSE bad

\* unicode.IsPrint on Latin-1 (the isPrint table of unicode/graphic.go) and on
\* U+FFFD (category So).  Above Latin-1 the graphic categories L, M, N, P, S
\* are taken for the whole range: the inputs of this model decode to no such
\* rune other than U+FFFD.
IsPrintRune(r) ==
  IF r < 256 THEN (r >= 32 /\ r <= 126) \/ (r >= 161 /\ r # 173)
  ELSE TRUE

\* isPrint(s): every rune of s, as range decodes it, is printable.
RECURSIVE PrintFrom(_, _)
PrintFrom(s, k) ==
  IF k > Len(s) THEN TRUE
  ELSE \E d \in {DecodeRune(s, k)} : IsPrintRune(d.r) /\ PrintFrom(s, k + d.w)

isPrint(s) == PrintFrom(s, 1)

\* utf8.EncodeRune.
EncodeRune(r) ==
  IF r < 128 THEN <<r>>
  ELSE IF r < 2048 THEN <<192 + (r \div 64), 128 + (r % 64)>>
  ELSE IF r < 65536 THEN <<224 + (r \div 4096), 128 + ((r \div 64) % 64), 128 + (r % 64)>>
  ELSE <<240 + (r \div 262144), 128 + ((r \div 4096) % 64),
         128 + ((r \div 64) % 64), 128 + (r % 64)>>

(***************************************************************************)
(* encoding/json: the scanner (checkValid) and Unmarshal                   *)
(***************************************************************************)

IsSpace(b) == b = 32 \/ b = 9 \/ b = 13 \/ b = 10

IsDigit(b) == b >= 48 /\ b <= 57

IsHex(b) == IsDigit(b) \/ (b >= 97 /\ b <= 102) \/ (b >= 65 /\ b <= 70)

HexVal(b) == IF IsDigit(b) THEN b - 48 ELSE IF b >= 97 THEN b - 87 ELSE b - 55

\* The first byte at or after i that is not JSON white space (Len(s)+1: none).
RECURSIVE SkipSpace(_, _)
SkipSpace(s, i) ==
  IF i <= Len(s) /\ IsSpace(s[i]) THEN SkipSpace(s, i + 1) ELSE i

\* Each Scan operator reads one construct starting at byte i and yields the
\* index just past it, or 0 when the text is not that construct.

\* Inside a string literal, from byte k on.
RECURSIVE ScanStringBody(_, _)
ScanStringBody(s, k) ==
  IF k > Len(s) THEN 0
  ELSE IF s[k] = 34 THEN k + 1
  ELSE IF s[k] = 92 THEN
         IF k + 1 > Len(s) THEN 0
         ELSE IF s[k + 1] \in {34, 92, 47, 98, 102, 110, 114, 116}
              THEN ScanStringBody(s, k + 2)
         ELSE IF s[k + 1] = 117 THEN
                IF k + 5 <= Len(s) /\ \A h \in 2..5 : IsHex(s[k + h])
                THEN ScanStringBody(s, k + 6) ELSE 0
         ELSE 0
  ELSE IF s[k] < 32 THEN 0
  ELSE ScanStringBody(s, k + 1)

ScanString(s, i) == ScanStringBody(s, i + 1)

RECURSIVE ScanDigits(_, _)
ScanDigits(s, i) ==
  IF i <= Len(s) /\ IsDigit(s[i]) THEN ScanDigits(s, i + 1) ELSE i

\* At least one digit from i on.
ScanDigits1(s, i) == Only({IF j = i THEN 0 ELSE j : j \in {ScanDigits(s, i)}})

\* The exponent of a number, if c stands at one.
ScanExp(s, c) ==
  IF c <= Len(s) /\ (s[c] = 101 \/ s[c] = 69)
  THEN ScanDigits1(s, IF c + 1 <= Len(s) /\ (s[c + 1] = 43 \/ s[c + 1] = 45)
                      THEN c + 2 ELSE c + 1)
  ELSE c

\* The fraction and the exponent of a number whose integer part ends before b.
ScanFrac(s, b) ==
  IF b <= Len(s) /\ s[b] = 46
  THEN Only({IF c = 0 THEN 0 ELSE ScanExp(s, c) : c \in {ScanDigits1(s, b + 1)}})
  ELSE ScanExp(s, b)

\* The number whose digits start at a (after the sign).
ScanInt(s, a) ==
  IF a > Len(s) \/ ~IsDigit(s[a]) THEN 0
  ELSE IF s[a] = 48 THEN ScanFrac(s, a + 1)
  ELSE Only({ScanFrac(s, b) : b \in {ScanDigits(s, a)}})

ScanNumber(s, i) == ScanInt(s, IF s[i] = 45 THEN i + 1 ELSE i)

ScanLiteral(s, i, lit) ==
  IF i + Len(lit) - 1 <= Len(s) /\ SubSeq(s, i, i + Len(lit) - 1) = lit
  THEN i + Len(lit) ELSE 0

RECURSIVE ScanValue(_, _)
RECURSIVE ScanElems(_, _)
RECURSIVE ScanMembers(_, _)

\* An object or an array after its opening byte: closed at once, or members
\* (elements) from j on.
ScanObject(s, j) == IF j <= Len(s) /\ s[j] = 125 THEN j + 1 ELSE ScanMembers(s, j)

ScanArray(s, j) == IF j <= Len(s) /\ s[j] = 93 THEN j + 1 ELSE ScanElems(s, j)

ScanValue(s, i) ==
  IF i > Len(s) THEN 0
  ELSE IF s[i] = 123 THEN Only({ScanObject(s, j) : j \in {SkipSpace(s, i + 1)}})
  ELSE IF s[i] = 91 THEN Only({ScanArray(s, j) : j \in {SkipSpace(s, i + 1)}})
  ELSE IF s[i] = 34 THEN ScanString(s, i)
  ELSE IF s[i] = 45 \/ IsDigit(s[i]) THEN ScanNumber(s, i)
  ELSE IF s[i] = 116 THEN ScanLiteral(s, i, <<116, 114, 117, 101>>)
  ELSE IF s[i] = 102 THEN ScanLiteral(s, i, <<102, 97, 108, 115, 101>>)
  ELSE IF s[i] = 110 THEN ScanLiteral(s, i, <<110, 117, 108, 108>>)
  ELSE 0

\* After an element, at the byte k that follows it and its white space.
ScanElemsNext(s, k) ==
  IF k > Len(s) THEN 0
  ELSE IF s[k] = 44 THEN Only({ScanElems(s, n) : n \in {SkipSpace(s, k + 1)}})
  ELSE IF s[k] = 93 THEN k + 1
  ELSE 0

\* The elements of an array from the value at i to the closing bracket.
ScanElems(s, i) ==
  Only({IF j = 0 THEN 0 ELSE Only({ScanElemsNext(s, k) : k \in {SkipSpace(s, j)}})
        : j \in {ScanValue(s, i)}})

\* After a member, at the byte m that follows it and its white space.
ScanMembersNext(s, m) ==
  IF m > Len(s) THEN 0
  ELSE IF s[m] = 44 THEN Only({ScanMembers(s, n) : n \in {SkipSpace(s, m + 1)}})
  ELSE IF s[m] = 125 THEN m + 1
  ELSE 0

\* The value of a member, from the byte k that follows the key and its
\* white space (the colon).
ScanMemberValue(s, k) ==
  IF k > Len(s) \/ s[k] # 58 THEN 0
  ELSE Only({IF e = 0 THEN 0 ELSE Only({ScanMembersNext(s, m) : m \in {SkipSpace(s, e)}})
             : e \in {Only({ScanValue(s, v) : v \in {SkipSpace(s, k + 1)}})}})

\* The members of an object from the key at i to the closing brace.
ScanMembers(s, i) ==
  IF i > Len(s) \/ s[i] # 34 THEN 0
  ELSE Only({IF j = 0 THEN 0 ELSE Only({ScanMemberValue(s, k) : k \in {SkipSpace(s, j)}})
             : j \in {ScanString(s, i)}})

\* checkValid: s is one JSON value with white space around it.
Valid(s) ==
  \E j \in {Only({ScanValue(s, i) : i \in {SkipSpace(s, 1)}})} :
    j # 0 /\ SkipSpace(s, j) = Len(s) + 1

\* The first byte of the value of a valid text.
FirstByte(s) == s[SkipSpace(s, 1)]

\* unquote: the bytes of the string literal whose body starts at k (the byte
\* after the opening quote).  An escape is decoded, \uXXXX to the UTF-8 of its
\* rune (a surrogate pair to one rune, a lone surrogate to U+FFFD), and a byte
\* that is no UTF-8 is replaced by U+FFFD.
Hex4(s, k) ==
  HexVal(s[k]) * 4096 + HexVal(s[k + 1]) * 256 + HexVal(s[k + 2]) * 16 + HexVal(s[k + 3])

IsSurrogate(r) == r >= 55296 /\ r <= 57343

Escaped(b) ==
  CASE b = 98 -> 8 [] b = 102 -> 12 [] b = 110 -> 10 [] b = 114 -> 13
    [] b = 116 -> 9 [] OTHER -> b

\* A \uXXXX escape at k whose rune is r: the rune it stands for and the bytes
\* of text it takes.
UnicodeEscape(s, k, r) ==
  IF /\ r >= 55296 /\ r <= 56319
     /\ k + 11 <= Len(s) /\ s[k + 6] = 92 /\ s[k + 7] = 117
     /\ \A h \in 8..11 : IsHex(s[k + h])
     /\ Hex4(s, k + 8) >= 56320 /\ Hex4(s, k + 8) <= 57343
  THEN [r |-> 65536 + (r - 55296) * 1024 + (Hex4(s, k + 8) - 56320), w |-> 12]
  ELSE [r |-> IF IsSurrogate(r) THEN RuneError ELSE r, w |-> 6]

RECURSIVE Unquote(_, _)
Unquote(s, k) ==
  IF s[k] = 34 THEN <<>>
  ELSE IF s[k] = 92 THEN
         IF s[k + 1] = 117
         THEN Only({EncodeRune(u.r) \o Unquote(s, k + u.w)
                    : u \in {Only({UnicodeEscape(s, k, r) : r \in {Hex4(s, k + 2)}})}})
         ELSE <<Escaped(s[k + 1])>> \o Unquote(s, k + 2)
  ELSE IF s[k] < 128 THEN <<s[k]>> \o Unquote(s, k + 1)
  ELSE Only({(IF d.r = RuneError /\ d.w = 1 THEN EncodeRune(RuneError)
              ELSE SubSeq(s, k, k + d.w - 1)) \o Unquote(s, k + d.w)
             : d \in {DecodeRune(s, k)}})

\* The members of a valid object from the key at i on, in the order of the
\* text: the unquoted key and the raw text of the value.
RECURSIVE Members(_, _)

\* The member whose key is at i and whose value runs from v to before e, and
\* the members after it.
MembersNext(s, i, v, e, m) ==
  <<[key |-> Unquote(s, i + 1), raw |-> SubSeq(s, v, e - 1)]>>
    \o (IF s[m] = 44 THEN Only({Members(s, n) : n \in {SkipSpace(s, m + 1)}}) ELSE <<>>)

MemberValue(s, i, v) ==
  Only({Only({MembersNext(s, i, v, e, m) : m \in {SkipSpace(s, e)}})
        : e \in {ScanValue(s, v)}})

Members(s, i) ==
  Only({Only({MemberValue(s, i, v) : v \in {SkipSpace(s, k + 1)}})
        : k \in {Only({SkipSpace(s, j) : j \in {ScanString(s, i)}})}})

\* The raw texts of the elements of a valid array from the value at i on.
RECURSIVE Elems(_, _)

ElemsNext(s, i, j, k) ==
  <<SubSeq(s, i, j - 1)>>
    \o (IF s[k] = 44 THEN Only({Elems(s, n) : n \in {SkipSpace(s, k + 1)}}) ELSE <<>>)

Elems(s, i) ==
  Only({Only({ElemsNext(s, i, j, k) : k \in {SkipSpace(s, j)}}) : j \in {ScanValue(s, i)}})

\* The map of a sequence of members: a repeated key keeps its last value.
MapOf(ms) ==
  [key \in {ms[k].key : k \in 1..Len(ms)} |->
     ms[CHOOSE k \in 1..Len(ms) :
          ms[k].key = key /\ \A l \in (k + 1)..Len(ms) : ms[l].key # key].raw]

\* The kind of a text: "invalid", or the first byte of its value.
Kind(s) == IF Valid(s) THEN FirstByte(s) ELSE 0

\* The first byte after the opening byte of a valid object or array.
Inside(s) == Only({SkipSpace(s, o + 1) : o \in {SkipSpace(s, 1)}})

ObjectMap(s, i) == IF s[i] = 125 THEN <<>> ELSE MapOf(Members(s, i))

ArrayList(s, i) == IF s[i] = 93 THEN <<>> ELSE Elems(s, i)

\* json.Unmarshal(value, &valueMap), valueMap a map[string]json.RawMessage:
\* an object fills the map, null leaves it empty, anything else is an error.
UnmarshalMapKind(s, kind) ==
  IF kind = 110 THEN [ok |-> TRUE, m |-> <<>>]
  ELSE IF kind # 123 THEN [ok |-> FALSE, m |-> <<>>]
  ELSE [ok |-> TRUE, m |-> Only({ObjectMap(s, i) : i \in {Inside(s)}})]

UnmarshalMap(value) ==
  Only({Only({UnmarshalMapKind(s, kind) : kind \in {Kind(s)}}) : s \in {value}})

\* json.Unmarshal(value, &valueList), valueList a []json.RawMessage.
UnmarshalListKind(s, kind) ==
  IF kind = 110 THEN [ok |-> TRUE, l |-> <<>>]
  ELSE IF kind # 91 THEN [ok |-> FALSE, l |-> <<>>]
  ELSE [ok |-> TRUE, l |-> Only({ArrayList(s, i) : i \in {Inside(s)}})]

UnmarshalList(value) ==
  Only({Only({UnmarshalListKind(s, kind) : kind \in {Kind(s)}}) : s \in {value}})

\* json.Unmarshal(value, &valueString): null leaves valueString "".
UnmarshalStringKind(s, kind) ==
  IF kind = 110 THEN [ok |-> TRUE, str |-> <<>>]
  ELSE IF kind # 34 THEN [ok |-> FALSE, str |-> <<>>]
  ELSE [ok |-> TRUE, str |-> Only({Unquote(s, o + 1) : o \in {SkipSpace(s, 1)}})]

UnmarshalString(value) ==
  Only({Only({UnmarshalStringKind(s, kind) : kind \in {Kind(s)}}) : s \in {value}})

(***************************************************************************)
(* strings.Fields and net/url                                              *)
(***************************************************************************)

\* The first index of byte b in s at or after i (Len(s)+1: none).
RECURSIVE IndexFrom(_, _, _)
IndexFrom(s, b, i) ==
  IF i > Len(s) \/ s[i] = b THEN i ELSE IndexFrom(s, b, i + 1)

\* The first index at or after i of white space (sp = TRUE) or of anything
\* else (sp = FALSE).
RECURSIVE NextField(_, _, _)
NextField(s, i, sp) ==
  IF i > Len(s) \/ ((s[i] \in {32, 9, 10, 11, 12, 13}) = sp) THEN i
  ELSE NextField(s, i + 1, sp)

\* strings.Fields(s): the maximal runs of s without white space.
RECURSIVE FieldsFrom(_, _)

\* The field from a to before b, and the fields after it.
FieldAt(s, a, b) == <<SubSeq(s, a, b - 1)>> \o FieldsFrom(s, b)

FieldsFrom(s, i) ==
  Only({IF a > Len(s) THEN <<>> ELSE Only({FieldAt(s, a, b) : b \in {NextField(s, a, TRUE)}})
        : a \in {NextField(s, i, FALSE)}})

Fields(s) == FieldsFrom(s, 1)

IsAlpha(b) == (b >= 65 /\ b <= 90) \/ (b >= 97 /\ b <= 122)

\* getScheme: the length of the scheme of a URL, 0 when it has none and -1
\* when the URL starts with a colon (missing protocol scheme).
RECURSIVE SchemeLen(_, _)
SchemeLen(s, i) ==
  IF i > Len(s) THEN 0
  ELSE IF IsAlpha(s[i]) THEN SchemeLen(s, i + 1)
  ELSE IF IsDigit(s[i]) \/ s[i] \in {43, 45, 46} THEN (IF i = 1 THEN 0 ELSE SchemeLen(s, i + 1))
  ELSE IF s[i] = 58 THEN (IF i = 1 THEN -1 ELSE i - 1)
  ELSE 0

\* unescape: every % of s is followed by two hexadecimal digits.
EscapesOK(s) ==
  \A k \in 1..Len(s) : s[k] = 37 => (k + 2 <= Len(s) /\ IsHex(s[k + 1]) /\ IsHex(s[k + 2]))

RECURSIVE Unescape(_)
Unescape(s) ==
  IF s = <<>> THEN <<>>
  ELSE IF Head(s) = 37 THEN <<HexVal(s[2]) * 16 + HexVal(s[3])>> \o Unescape(Drop(s, 4))
  ELSE <<Head(s)>> \o Unescape(Tail(s))

\* The bytes a host may hold unescaped (shouldEscape, mode encodeHost).
HostByte(b) ==
  \/ IsAlpha(b) \/ IsDigit(b) \/ b >= 128
  \/ b \in {45, 95, 46, 126, 33, 36, 38, 39, 40, 41, 42, 43, 44, 59, 61, 58, 91, 93, 60, 62, 34, 37}

\* validOptionalPort: nothing, or a colon and digits.
ValidPort(host) ==
  LET c == CHOOSE k \in 0..Len(host) :
             /\ k > 0 => host[k] = 58
             /\ \A l \in (k + 1)..Len(host) : host[l] # 58
  IN  c = 0 \/ \A l \in (c + 1)..Len(host) : IsDigit(host[l])

\* A URL that does not parse.
URLError == [err |-> TRUE, scheme |-> <<>>, host |-> <<>>, path |-> <<>>, rawQuery |-> <<>>]

\* The URL u with a scheme of length sl, rest before its query, an authority
\* auth if hasAuth, and path: the checks of parse and parseAuthority.
ParseChecked(u, sl, rest, rawQuery, hasAuth, auth, path) ==
  LET opaque == sl > 0 /\ (rest = <<>> \/ rest[1] # 47)
      bad == \/ \E k \in 1..Len(u) : u[k] < 32 \/ u[k] = 127
             \/ sl = -1
             \/ (sl = 0 /\ rest # <<>> /\ rest[1] # 47
                   /\ \E k \in 1..(IndexFrom(rest, 47, 1) - 1) : rest[k] = 58)
             \/ (~opaque /\ hasAuth
                   /\ (~ValidPort(auth) \/ ~EscapesOK(auth)
                         \/ \E k \in 1..Len(auth) : ~HostByte(auth[k])))
             \/ (~opaque /\ ~EscapesOK(path))
  IN  IF bad THEN URLError
      ELSE [err |-> FALSE, scheme |-> SubSeq(u, 1, sl),
            host |-> IF opaque THEN <<>> ELSE Unescape(auth),
            path |-> path, rawQuery |-> rawQuery]

\* An authority after "//" runs to the next '/' at slash.
ParseAuthority(u, sl, rest, rawQuery, hasAuth, slash) ==
  Only({ParseChecked(u, sl, rest, rawQuery, hasAuth, auth, path)
        : auth \in {IF hasAuth THEN SubSeq(rest, 3, slash - 1) ELSE <<>>},
          path \in {IF hasAuth THEN Drop(rest, slash) ELSE rest}})

\* The rest of the URL before its query: whether it starts an authority.
ParseRest(u, sl, rest, rawQuery) ==
  Only({ParseAuthority(u, sl, rest, rawQuery, hasAuth, slash)
        : hasAuth \in {Len(rest) >= 2 /\ rest[1] = 47 /\ rest[2] = 47
                         /\ (sl > 0 \/ ~(Len(rest) >= 3 /\ rest[3] = 47))},
          slash \in {IndexFrom(rest, 47, 3)}})

\* The URL after its scheme: the query is split off at the first '?' at q.
ParseQuery(u, sl, afterScheme, q) ==
  Only({ParseRest(u, sl, rest, rawQuery)
        : rest \in {SubSeq(afterScheme, 1, q - 1)}, rawQuery \in {Drop(afterScheme, q + 1)}})

ParseScheme(u, sl) ==
  Only({Only({ParseQuery(u, sl, afterScheme, q) : q \in {IndexFrom(afterScheme, 63, 1)}})
        : afterScheme \in {IF sl > 0 THEN Drop(u, sl + 2) ELSE u}})

\* url.Parse(rawURL) for URLs without user information and IPv6 literals:
\* the fragment is cut off, the scheme is read, the query is split from the
\* rest at the first '?', and an authority after "//" runs to the next '/'.
ParseURL(raw) ==
  Only({Only({ParseScheme(u, sl) : sl \in {SchemeLen(u, 1)}})
        : u \in {SubSeq(raw, 1, IndexFrom(raw, 35, 1) - 1)}})

\* u.String() of a parsed URL whose host and path need no escaping.
URLString(u) ==
  (IF u.scheme # <<>> THEN u.scheme \o <<58>> ELSE <<>>)
    \o (IF u.host # <<>> THEN <<47, 47>> \o u.host ELSE <<>>)
    \o u.path
    \o (IF u.rawQuery # <<>> THEN <<63>> \o u.rawQuery ELSE <<>>)

(***************************************************************************)
(* The archives the programs are run on                                    *)
(***************************************************************************)

\* The most entries of an archive, the most files of a dump run, and the
\* most goroutines (or calls) one entry's decoding may have open at once.
MaxEntries == 2
MaxFiles == 2
MaxDepth == 7

SegQuery == Str(<<"q", "u", "e", "r", "y">>)
SegForm == Str(<<"f", "o", "r", "m">>)
SegBody == Str(<<"b", "o", "d", "y">>)

\* Parameter values: the empty text, a URL, the base64 of {"k":"s"}, nested
\* arrays, JSON null, a nested object, a text that is neither JSON nor
\* base64, a JSON string, the base64 of "hi" and a base64 text that decodes
\* to a control byte.
VEmpty == <<>>
VUrl == Str(<<"h", "t", "t", "p", ":", "/", "/", "e", "v", "i", "l", ".", "c", "o", "m">>)
VB64Obj == Str(<<"e", "y", "J", "r", "I", "j", "o", "i", "c", "y", "J", "9">>)
VArrays == Str(<<"[", "[", "1", ",", "2", "]", "]">>)
VNull == Str(<<"n", "u", "l", "l">>)
VObject == Str(<<"{", "\"", "a", "\"", ":", "{", "\"", "x", "\"", ":", "1", ",", "\"", "y", "\"", ":", "2", "}", "}">>)
VPlain == Str(<<"x", " ", "y">>)
VString == Str(<<"\"", "h", "i", "\"">>)
VB64Text == Str(<<"a", "G", "k", "=">>)
VB64Bin == Str(<<"a", "b", "c", "d">>)

Values == {VEmpty, VUrl, VB64Obj, VArrays, VNull, VObject, VPlain, VString, VB64Text, VB64Bin}

NameN == Str(<<"n">>)
NameM == Str(<<"m">>)

Param(name, value) == [name |-> name, value |-> value]

Request(qs, ps, text) == [queryString |-> qs, params |-> ps, text |-> text]

\* A request with one value in one place, and one with every place filled.
Requests ==
  {Request(<<Param(NameN, v)>>, <<>>, <<>>) : v \in {VArrays, VObject, VUrl, VNull}}
    \cup {Request(<<>>, <<Param(NameN, v)>>, <<>>) : v \in {VB64Obj, VEmpty, VString}}
    \cup {Request(<<>>, <<>>, v) : v \in Values}
    \cup {Request(<<Param(NameN, VPlain), Param(NameM, VUrl)>>, <<Param(NameN, VNull)>>, VArrays)}

UrlExample == Str(<<"h", "t", "t", "p", ":", "/", "/", "e", "x", "a", "m", "p", "l", "e", ".", "c", "o", "m", "/", "p", "?", "q", "=", "1">>)
UrlOther == Str(<<"h", "t", "t", "p", ":", "/", "/", "o", "t", "h", "e", "r", ".", "c", "o", "m", "/">>)
UrlPort == Str(<<"h", "t", "t", "p", ":", "/", "/", "e", "x", "a", "m", "p", "l", "e", ".", "c", "o", "m", ":", "8", "0", "8", "0", "/">>)
UrlBad == Str(<<"h", "t", "t", "p", ":", "/", "/", "e", "x", "a", "%", "z", "z", "m", "p", "l", "e", "/">>)

Urls == {UrlExample, UrlOther, UrlPort, UrlBad}

\* response.content.text: the base64 of "x y 1 2 s hi http://evil.com", of
\* nothing, and a text that is no base64.
RespAll == Str(<<"e", "C", "B", "5", "I", "D", "E", "g", "M", "i", "B", "z", "I", "G", "h", "p", "I", "G", "h", "0", "d", "H", "A", "6", "L", "y", "9", "l", "d", "m", "l", "s", "L", "m", "N", "v", "b", "Q", "=", "=">>)
RespEmpty == <<>>
RespBad == Str(<<"!">>)

Resps == {RespAll, RespEmpty, RespBad}

Method == Str(<<"G", "E", "T">>)

Entry(req, url, resp) ==
  [method |-> Method, url |-> url, queryString |-> req.queryString,
   params |-> req.params, text |-> req.text, respText |-> resp]

\* The entries of the archives of several entries: a host on the allow-list,
\* one off it with a query parameter, and a URL that does not parse.
Several ==
  {Entry(Request(<<>>, <<>>, VPlain), UrlExample, RespAll),
   Entry(Request(<<Param(NameN, VPlain)>>, <<>>, <<>>), UrlOther, RespAll),
   Entry(Request(<<>>, <<>>, VPlain), UrlBad, RespAll)}

\* The entries of the archives of one entry: every request with one URL and
\* response, one request with every URL and response, and those of Several.
Entries ==
  {Entry(r, UrlExample, RespAll) : r \in Requests}
    \cup {Entry(Request(<<>>, <<>>, VPlain), u, RespAll) : u \in Urls}
    \cup {Entry(Request(<<>>, <<>>, VPlain), UrlExample, rs) : rs \in Resps}
    \cup Several

\* An archive holds one entry of any kind, or up to MaxEntries of Several.
Archives == [1..1 -> Entries] \cup UNION {[1..n -> Several] : n \in 0..MaxEntries}

\* The -domains flag.
DomainFlags == {<<>>, Str(<<"e", "x", "a", "m", "p", "l", "e", ".", "c", "o", "m">>), Str(<<" ", "o", "t", "h", "e", "r", ".", "c", "o", "m", " ", " ", "e", "x", "a", "m", "p", "l", "e", ".", "c", "o", "m">>)}

\* A file named on the dump program's command line: one that cannot be
\* opened, one whose content is no archive, or an archive.
Missing == [kind |-> "missing", entries |-> <<>>]
NotArchive == [kind |-> "invalid", entries |-> <<>>]
Archive(entries) == [kind |-> "har", entries |-> entries]

Documents ==
  {NotArchive} \cup {Archive(<<>>)} \cup {Archive(<<e>>) : e \in Entries}

\* The files of a batch.
Batch ==
  {Missing, NotArchive, Archive(<<>>),
   Archive(<<Entry(Request(<<>>, <<>>, VString), UrlExample, RespAll)>>),
   Archive(<<Entry(Request(<<>>, <<>>, VPlain), UrlBad, RespAll)>>)}

\* The command lines: no file (standard input is read), one file, or a batch.
CommandLines ==
  {<<>>} \cup [1..1 -> Documents \cup {Missing}]
    \cup UNION {[1..n -> Batch] : n \in 2..MaxFiles}

(***************************************************************************)
(* The state of the two programs                                           *)
(***************************************************************************)

VARIABLES
  har,          \* har.Log.Entries, as decoded from stdin
  domainsFlag,  \* *domainsFlag
  mainpc,       \* where main is: "loop", "filter", "decode", "recv", "done", "panic"
  i,            \* the index of the entry the loop variable entry holds
  respBody,     \* respBodyString
  keyValues,    \* keyValues of the current entry: the leaves kept so far
  results,      \* results, each with the index of its entry
  stdout,       \* what json.NewEncoder(os.Stdout).Encode(results) wrote
  heap,         \* the backing arrays of the key slices
  chains,       \* per entry, its goroutines: the entry's own, then the chain of searches
  calls,        \* per entry, every search call made: its path, value and caller
  recv,         \* per entry, every leaf main received, as it read at that moment
  stale,        \* the entries whose goroutine read the loop variable after main moved on
  args,         \* dump: flag.Args(), each path with the file it names
  stdin,        \* dump: the document on standard input
  dpc,          \* dump: where main and print are
  fi,           \* dump: the index of fpath in flag.Args()
  ei,           \* dump: the index of entry in har.Log.Entries
  left,         \* dump: the parameters the running loop has still to take
  request,      \* dump: request
  stack,        \* dump: the calls of printParamRecurse that have not returned
  out,          \* dump: what fmt.Printf wrote, a block per call
  visited,      \* dump: every (key, value) printParamRecurse was called with
  begun         \* dump: the files main went to open

corrVars == <<har, domainsFlag, mainpc, i, respBody, keyValues, results, stdout,
              heap, chains, calls, recv, stale>>

dumpVars == <<args, stdin, dpc, fi, ei, left, request, stack, out, visited, begun>>

vars == <<corrVars, dumpVars>>

(***************************************************************************)
(* Correlation mode (src/main.go:155-351)                                  *)
(***************************************************************************)

\* A slice header: the backing array and the length; the capacity is the
\* length of the array.
NilSlice == [arr |-> 0, len |-> 0]

Segments(hp, sl) == IF sl.arr = 0 THEN <<>> ELSE SubSeq(hp[sl.arr], 1, sl.len)

\* The capacity growslice gives a slice of capacity c that one element is
\* appended to (c < 256: doubled).
GrowCap(c) == IF c = 0 THEN 1 ELSE 2 * c

\* []string{...}: a fresh array that the slice fills.
Alloc(hp, segs) == [heap |-> Append(hp, segs), sl |-> [arr |-> Len(hp) + 1, len |-> Len(segs)]]

\* append(key, x): in place when the array has room beyond the slice's
\* length, else into a grown copy.
append(hp, sl, x) ==
  IF sl.len < Len(hp[sl.arr])
  THEN [heap |-> [hp EXCEPT ![sl.arr][sl.len + 1] = x],
        sl |-> [arr |-> sl.arr, len |-> sl.len + 1]]
  ELSE [heap |-> Append(hp, SubSeq(hp[sl.arr], 1, sl.len) \o <<x>>
                              \o [k \in 1..(GrowCap(sl.len) - sl.len - 1) |-> <<>>]),
        sl |-> [arr |-> Len(hp) + 1, len |-> sl.len + 1]]

\* A *KeyValue: the call that made it, its Key and its Value.
NoLeaf == [id |-> 0, key |-> NilSlice, value |-> <<>>]

\* A goroutine: where it is (pc), whether it runs, waits in a range over its
\* callee's channel ("wait"), is blocked sending a leaf it received ("fwd")
\* or its own ("own"), or has closed its channel ("closed").
NewFrame(id, pc, key, value) ==
  [id |-> id, pc |-> pc, st |-> "run", key |-> key, value |-> value,
   mapLeft |-> <<>>, listLeft |-> <<>>, idx |-> 0, out |-> NoLeaf]

Top(e) == chains[e][Len(chains[e])]

\* A goroutine of entry e is running its code (the process is alive).
Runs(e, pc) ==
  /\ mainpc \notin {"off", "done", "panic"}
  /\ e \in DOMAIN chains
  /\ chains[e] # <<>>
  /\ Top(e).st = "run"
  /\ Top(e).pc = pc

\* The top goroutine of entry e moves on without calling search.
Goto(e, frame) ==
  /\ chains' = [chains EXCEPT ![e][Len(chains[e])] = frame]
  /\ UNCHANGED <<heap, calls>>

\* search(key, value), called by the top goroutine of entry e, which becomes
\* caller and ranges over the returned channel: a new goroutine starts.
Search(e, caller, key, value, hp) ==
  /\ Len(chains[e]) < MaxDepth
  /\ heap' = hp
  /\ calls' = [calls EXCEPT ![e] =
                 Append(@, [path |-> Segments(hp, key), value |-> value,
                            parent |-> caller.id])]
  /\ chains' = [chains EXCEPT ![e] =
                  Append([@ EXCEPT ![Len(@)] = [caller EXCEPT !.st = "wait"]],
                         NewFrame(Len(calls[e]) + 1, "map", key, value))]

\* The correlation program before it runs.
CorrStart ==
  /\ mainpc = "loop"
  /\ i = 1
  /\ respBody = <<>>
  /\ keyValues = <<>>
  /\ results = <<>>
  /\ stdout = <<>>
  /\ heap = <<>>
  /\ chains = [e \in 1..Len(har) |-> <<>>]
  /\ calls = [e \in 1..Len(har) |-> <<>>]
  /\ recv = [e \in 1..Len(har) |-> <<>>]
  /\ stale = {}

\* The correlation program is not the one run.
CorrOff ==
  /\ har = <<>>
  /\ domainsFlag = <<>>
  /\ mainpc = "off"
  /\ i = 1
  /\ respBody = <<>>
  /\ keyValues = <<>>
  /\ results = <<>>
  /\ stdout = <<>>
  /\ heap = <<>>
  /\ chains = <<>>
  /\ calls = <<>>
  /\ recv = <<>>
  /\ stale = {}

\* What a step of main other than a receive leaves alone, the dump program's
\* state included.
mainOnly == <<heap, chains, calls, recv, stale, dumpVars>>

\* main.go:222-251: the next entry is assigned to entry, its channel is made
\* and its goroutine started.
MainSpawn ==
  /\ mainpc = "loop"
  /\ i <= Len(har)
  /\ chains' = [chains EXCEPT ![i] = <<NewFrame(0, "query", NilSlice, <<>>)>>]
  /\ mainpc' = "filter"
  /\ UNCHANGED <<har, domainsFlag, i, respBody, keyValues, results, stdout, heap,
                 calls, recv, stale, dumpVars>>

\* main.go:252-267: with domains given, the entry is skipped unless its URL's
\* host is one of them; a URL that does not parse panics.
HostAllowed(domains, u) == \E d \in 1..Len(domains) : domains[d] = u.host

\* MainFilter without the continue of main.go:264-266.
MainFilterNoSkip ==
  /\ mainpc = "filter"
  /\ \E domains \in {Fields(domainsFlag)} :
       IF 0 < Len(domains)
       THEN \E u \in {ParseURL(har[i].url)} :
              mainpc' = IF u.err THEN "panic" ELSE "decode"
       ELSE mainpc' = "decode"
  /\ UNCHANGED <<har, domainsFlag, i, respBody, keyValues, results, stdout>>
  /\ UNCHANGED mainOnly

MainFilter ==
  /\ mainpc = "filter"
  /\ \E domains \in {Fields(domainsFlag)} :
       IF 0 < Len(domains)
       THEN \E u \in {ParseURL(har[i].url)} :
              IF u.err THEN mainpc' = "panic" /\ i' = i
              ELSE IF ~HostAllowed(domains, u) THEN mainpc' = "loop" /\ i' = i + 1
              ELSE mainpc' = "decode" /\ i' = i
       ELSE mainpc' = "decode" /\ i' = i
  /\ UNCHANGED <<har, domainsFlag, respBody, keyValues, results, stdout>>
  /\ UNCHANGED mainOnly

\* main.go:268-274: the response body is decoded; an error panics.
MainDecode ==
  /\ mainpc = "decode"
  /\ \E d \in {DecodeString(har[i].respText)} :
       IF d.err
       THEN mainpc' = "panic" /\ UNCHANGED <<respBody, keyValues>>
       ELSE mainpc' = "recv" /\ respBody' = d.bytes /\ keyValues' = <<>>
  /\ UNCHANGED <<har, domainsFlag, i, results, stdout>>
  /\ UNCHANGED mainOnly

\* main.go:277: the leaf is kept when the response holds its value.
Reflected(body, value) == Contains(body, value)

\* main.go:275-280: main receives a leaf from the entry's channel.
MainRecv ==
  /\ mainpc = "recv"
  /\ chains[i][1].st = "fwd"
  /\ LET leaf == chains[i][1].out
     IN  /\ keyValues' = IF Reflected(respBody, leaf.value)
                         THEN Append(keyValues, leaf) ELSE keyValues
         /\ recv' = [recv EXCEPT ![i] =
                       Append(@, [id |-> leaf.id, key |-> Segments(heap, leaf.key),
                                  value |-> leaf.value])]
  /\ chains' = [chains EXCEPT ![i][1].st = "wait", ![i][1].out = NoLeaf]
  /\ UNCHANGED <<har, domainsFlag, mainpc, i, respBody, results, stdout, heap, calls,
                 stale, dumpVars>>

\* main.go:275, 281-290: the channel is closed, the range ends and the
\* entry's result is appended.
MainResult ==
  /\ mainpc = "recv"
  /\ chains[i][1].st = "closed"
  /\ results' = Append(results, [entry |-> i, method |-> har[i].method,
                                 url |-> har[i].url, xss |-> keyValues])
  /\ mainpc' = "loop"
  /\ i' = i + 1
  /\ UNCHANGED <<har, domainsFlag, respBody, keyValues, stdout>>
  /\ UNCHANGED mainOnly

\* The JSON of one leaf: its Key is read from the backing array now.
EncodeLeaf(hp, leaf) == [key |-> Segments(hp, leaf.key), value |-> leaf.value]

\* main.go:291-293: the results are encoded and main returns.
MainEncode ==
  /\ mainpc = "loop"
  /\ i > Len(har)
  /\ stdout' = [r \in 1..Len(results) |->
                  [method |-> results[r].method, url |-> results[r].url,
                   xss |-> [k \in 1..Len(results[r].xss) |->
                              EncodeLeaf(heap, results[r].xss[k])]]]
  /\ mainpc' = "done"
  /\ UNCHANGED <<har, domainsFlag, i, respBody, keyValues, results>>
  /\ UNCHANGED mainOnly

\* What a step of a goroutine leaves alone, the dump program's state included.
goOnly == <<har, domainsFlag, mainpc, i, respBody, keyValues, results, stdout, recv,
            dumpVars>>

\* The entries a read of the loop variable entry by the goroutine of entry e
\* may see: its own (a loop variable per iteration, or main still in that
\* iteration) or the one main has assigned since (one variable for the loop).
EntryRead(e) == {e, IF i > Len(har) THEN Len(har) ELSE i}

\* main.go:228: the goroutine reads entry.Request.QueryString.
GoQuery(e) ==
  /\ Runs(e, "query")
  /\ \E r \in EntryRead(e) :
       /\ Goto(e, [Top(e) EXCEPT !.pc = "queryIter", !.listLeft = har[r].queryString])
       /\ stale' = IF r = e THEN stale ELSE stale \cup {e}
  /\ UNCHANGED goOnly

\* main.go:228-235: search([]string{"query", name}, value) per parameter.
GoQueryIter(e) ==
  /\ Runs(e, "queryIter")
  /\ LET f == Top(e)
     IN  IF f.listLeft = <<>> THEN Goto(e, [f EXCEPT !.pc = "form"])
         ELSE LET a == Alloc(heap, <<SegQuery, Head(f.listLeft).name>>)
              IN  Search(e, [f EXCEPT !.listLeft = Tail(@)], a.sl,
                         Head(f.listLeft).value, a.heap)
  /\ UNCHANGED goOnly
  /\ UNCHANGED stale

\* main.go:238: the goroutine reads entry.Request.PostData.Params.
GoForm(e) ==
  /\ Runs(e, "form")
  /\ \E r \in EntryRead(e) :
       /\ Goto(e, [Top(e) EXCEPT !.pc = "formIter", !.listLeft = har[r].params])
       /\ stale' = IF r = e THEN stale ELSE stale \cup {e}
  /\ UNCHANGED goOnly

\* main.go:238-245: search([]string{"form", name}, value) per parameter.
GoFormIter(e) ==
  /\ Runs(e, "formIter")
  /\ LET f == Top(e)
     IN  IF f.listLeft = <<>> THEN Goto(e, [f EXCEPT !.pc = "body"])
         ELSE LET a == Alloc(heap, <<SegForm, Head(f.listLeft).name>>)
              IN  Search(e, [f EXCEPT !.listLeft = Tail(@)], a.sl,
                         Head(f.listLeft).value, a.heap)
  /\ UNCHANGED goOnly
  /\ UNCHANGED stale

\* main.go:248: search([]string{"body"}, entry.Request.PostData.Text).
GoBody(e) ==
  /\ Runs(e, "body")
  /\ \E r \in EntryRead(e) :
       /\ LET a == Alloc(heap, <<SegBody>>)
          IN  Search(e, [Top(e) EXCEPT !.pc = "end"], a.sl, har[r].text, a.heap)
       /\ stale' = IF r = e THEN stale ELSE stale \cup {e}
  /\ UNCHANGED goOnly

\* main.go:225, 251: the goroutine returns and its deferred close runs.
GoClose(e) ==
  /\ Runs(e, "end")
  /\ Goto(e, [Top(e) EXCEPT !.st = "closed"])
  /\ UNCHANGED goOnly
  /\ UNCHANGED stale

\* main.go:303-305: json.Unmarshal(valueBytes, &valueMap).
SearchMap(e) ==
  /\ Runs(e, "map")
  /\ \E um \in {UnmarshalMap(Top(e).value)} :
       Goto(e, [Top(e) EXCEPT !.pc = IF um.ok THEN "mapIter" ELSE "list",
                              !.mapLeft = um.m])
  /\ UNCHANGED goOnly
  /\ UNCHANGED stale

\* SearchMapIter with search(key, string(value2)): the key is not appended.
SearchMapIterSameKey(e) ==
  /\ Runs(e, "mapIter")
  /\ LET f == Top(e)
     IN  IF DOMAIN f.mapLeft = {} THEN Goto(e, [f EXCEPT !.pc = "list"])
         ELSE \E key2 \in DOMAIN f.mapLeft :
                Search(e, [f EXCEPT !.mapLeft =
                                      [k \in DOMAIN f.mapLeft \ {key2} |-> f.mapLeft[k]]],
                       f.key, f.mapLeft[key2], heap)
  /\ UNCHANGED goOnly
  /\ UNCHANGED stale

\* main.go:306-310: search(append(key, key2), string(value2)) per key of the
\* map, in the order the range happens to take.
SearchMapIter(e) ==
  /\ Runs(e, "mapIter")
  /\ LET f == Top(e)
     IN  IF DOMAIN f.mapLeft = {} THEN Goto(e, [f EXCEPT !.pc = "list"])
         ELSE \E key2 \in DOMAIN f.mapLeft :
                LET a == append(heap, f.key, key2)
                    others == [k \in DOMAIN f.mapLeft \ {key2} |-> f.mapLeft[k]]
                IN  Search(e, [f EXCEPT !.mapLeft = others], a.sl, f.mapLeft[key2], a.heap)
  /\ UNCHANGED goOnly
  /\ UNCHANGED stale

\* main.go:313-315: json.Unmarshal(valueBytes, &valueList).
SearchList(e) ==
  /\ Runs(e, "list")
  /\ \E ul \in {UnmarshalList(Top(e).value)} :
       Goto(e, [Top(e) EXCEPT !.pc = IF ul.ok THEN "listIter" ELSE "string",
                              !.listLeft = ul.l, !.idx = 0])
  /\ UNCHANGED goOnly
  /\ UNCHANGED stale

\* main.go:316-320: search(append(key, fmt.Sprintf("%d", key2)), string(value2))
\* per element.
SearchListIter(e) ==
  /\ Runs(e, "listIter")
  /\ LET f == Top(e)
     IN  IF f.listLeft = <<>> THEN Goto(e, [f EXCEPT !.pc = "string"])
         ELSE LET a == append(heap, f.key, Decimal(f.idx))
              IN  Search(e, [f EXCEPT !.listLeft = Tail(@), !.idx = @ + 1], a.sl,
                         Head(f.listLeft), a.heap)
  /\ UNCHANGED goOnly
  /\ UNCHANGED stale

\* main.go:323-329: a JSON string is searched unquoted under the same key.
SearchString(e) ==
  /\ Runs(e, "string")
  /\ \E f \in {Top(e)} : \E us \in {UnmarshalString(f.value)} :
       IF us.ok THEN Search(e, [f EXCEPT !.pc = "b64"], f.key, us.str, heap)
       ELSE Goto(e, [f EXCEPT !.pc = "b64"])
  /\ UNCHANGED goOnly
  /\ UNCHANGED stale

\* main.go:332: bytes, _ := base64.StdEncoding.DecodeString(value); 0 < len(bytes).
\* The error is dropped: the bytes decoded before it count.
Base64Bytes(value) == DecodeString(value).bytes

\* SearchBase64 with 0 <= len(bytes) for its condition.
SearchBase64Always(e) ==
  /\ Runs(e, "b64")
  /\ \E f \in {Top(e)} : \E bytes \in {Base64Bytes(f.value)} :
       Search(e, [f EXCEPT !.pc = "own"], f.key, bytes, heap)
  /\ UNCHANGED goOnly
  /\ UNCHANGED stale

\* main.go:331-343: the decoded bytes are searched under the same key.
SearchBase64(e) ==
  /\ Runs(e, "b64")
  /\ \E f \in {Top(e)} : \E bytes \in {Base64Bytes(f.value)} :
       IF 0 < Len(bytes) THEN Search(e, [f EXCEPT !.pc = "own"], f.key, bytes, heap)
       ELSE Goto(e, [f EXCEPT !.pc = "own"])
  /\ UNCHANGED goOnly
  /\ UNCHANGED stale

\* main.go:345-348: the search sends its own key and value.
SearchOwn(e) ==
  /\ Runs(e, "own")
  /\ LET f == Top(e)
     IN  Goto(e, [f EXCEPT !.st = "own",
                           !.out = [id |-> f.id, key |-> f.key, value |-> f.value]])
  /\ UNCHANGED goOnly
  /\ UNCHANGED stale

\* main.go:233, 243, 249, 308, 318, 327, 341: a goroutine in a range over its
\* callee's channel receives the leaf the callee is sending and goes to send
\* it on its own channel; the callee goes on (main.go:300: after its own
\* leaf it returns and closes its channel).
Forward(e, j) ==
  /\ mainpc \notin {"off", "done", "panic"}
  /\ e \in DOMAIN chains
  /\ j + 1 <= Len(chains[e])
  /\ chains[e][j].st = "wait"
  /\ chains[e][j + 1].st \in {"fwd", "own"}
  /\ chains' = [chains EXCEPT
                  ![e][j].st = "fwd",
                  ![e][j].out = chains[e][j + 1].out,
                  ![e][j + 1].st = IF chains[e][j + 1].st = "own" THEN "closed" ELSE "wait",
                  ![e][j + 1].out = NoLeaf]
  /\ UNCHANGED <<heap, calls, stale>>
  /\ UNCHANGED goOnly

\* The callee's channel is closed: the range of the caller ends.
RangeEnd(e, j) ==
  /\ mainpc \notin {"off", "done", "panic"}
  /\ e \in DOMAIN chains
  /\ j + 1 = Len(chains[e])
  /\ chains[e][j].st = "wait"
  /\ chains[e][j + 1].st = "closed"
  /\ chains' = [chains EXCEPT ![e] = [SubSeq(@, 1, j) EXCEPT ![j].st = "run"]]
  /\ UNCHANGED <<heap, calls, stale>>
  /\ UNCHANGED goOnly

CorrNext ==
  \/ MainSpawn \/ MainFilter \/ MainDecode \/ MainRecv \/ MainResult \/ MainEncode
  \/ \E e \in 1..MaxEntries : GoQuery(e)
  \/ \E e \in 1..MaxEntries : GoQueryIter(e)
  \/ \E e \in 1..MaxEntries : GoForm(e)
  \/ \E e \in 1..MaxEntries : GoFormIter(e)
  \/ \E e \in 1..MaxEntries : GoBody(e)
  \/ \E e \in 1..MaxEntries : GoClose(e)
  \/ \E e \in 1..MaxEntries : SearchMap(e)
  \/ \E e \in 1..MaxEntries : SearchMapIter(e)
  \/ \E e \in 1..MaxEntries : SearchList(e)
  \/ \E e \in 1..MaxEntries : SearchListIter(e)
  \/ \E e \in 1..MaxEntries : SearchString(e)
  \/ \E e \in 1..MaxEntries : SearchBase64(e)
  \/ \E e \in 1..MaxEntries : SearchOwn(e)
  \/ \E e \in 1..MaxEntries : \E j \in 1..MaxDepth : Forward(e, j)
  \/ \E e \in 1..MaxEntries : \E j \in 1..MaxDepth : RangeEnd(e, j)

(***************************************************************************)
(* Dump mode (src/main.go:1-153)                                           *)
(***************************************************************************)

\* json.Marshal of a string (HTML escaping on): the bytes between the quotes.
RECURSIVE MarshalFrom(_, _)
MarshalFrom(s, k) ==
  IF k > Len(s) THEN <<>>
  ELSE IF s[k] = 34 \/ s[k] = 92 THEN <<92, s[k]>> \o MarshalFrom(s, k + 1)
  ELSE IF s[k] = 10 THEN <<92, 110>> \o MarshalFrom(s, k + 1)
  ELSE IF s[k] = 13 THEN <<92, 114>> \o MarshalFrom(s, k + 1)
  ELSE IF s[k] = 9 THEN <<92, 116>> \o MarshalFrom(s, k + 1)
  ELSE IF s[k] < 32 \/ s[k] = 60 \/ s[k] = 62 \/ s[k] = 38
       THEN <<92, 117, 48, 48, 48 + (s[k] \div 16),
              (IF (s[k] % 16) < 10 THEN 48 + (s[k] % 16) ELSE 87 + (s[k] % 16))>>
              \o MarshalFrom(s, k + 1)
  ELSE IF s[k] < 128 THEN <<s[k]>> \o MarshalFrom(s, k + 1)
  ELSE Only({(IF d.r = RuneError /\ d.w = 1 THEN <<92, 117, 102, 102, 102, 100>>
              ELSE SubSeq(s, k, k + d.w - 1)) \o MarshalFrom(s, k + d.w)
             : d \in {DecodeRune(s, k)}})

\* makeKey(a, b): a["b"].
makeKey(a, b) == a \o <<91, 34>> \o MarshalFrom(b, 1) \o <<34, 93>>

\* fmt.Sprintf("%s[]", key).
ListKey(key) == key \o <<91, 93>>

\* A call of printParamRecurse: its arguments, where it is, and what its
\* range loops have still to take.
NewCall(key, value) ==
  [key |-> key, value |-> value, pc |-> "map", mapLeft |-> <<>>, listLeft |-> <<>>]

Frame == stack[Len(stack)]

\* The stack with the running call changed to frame, and with it returned.
Caller(frame) == [stack EXCEPT ![Len(stack)] = frame]

Return == SubSeq(stack, 1, Len(stack) - 1)

\* The dump program runs the call on top of the stack at pc.
At(pc) ==
  /\ dpc \notin {"off", "done", "crashed"}
  /\ stack # <<>>
  /\ Frame.pc = pc

\* printParamRecurse(key, value, request) is called with stk the stack of
\* its callers.
printParamRecurse(stk, key, value) ==
  /\ Len(stk) < MaxDepth
  /\ stack' = Append(stk, NewCall(key, value))
  /\ visited' = visited \cup {<<key, value>>}

\* printParam(key, value, request): the block is printed and the value
\* decoded.
printParam(stk, key, value) ==
  /\ out' = Append(out, [key |-> key, value |-> value, request |-> request])
  /\ printParamRecurse(stk, key, value)

\* The dump program before it runs.
DumpStart ==
  /\ dpc = "main"
  /\ fi = 0
  /\ ei = 1
  /\ left = <<>>
  /\ request = <<>>
  /\ stack = <<>>
  /\ out = <<>>
  /\ visited = {}
  /\ begun = {}

\* The dump program is not the one run.
DumpOff ==
  /\ args = <<>>
  /\ stdin = NotArchive
  /\ dpc = "off"
  /\ fi = 0
  /\ ei = 1
  /\ left = <<>>
  /\ request = <<>>
  /\ stack = <<>>
  /\ out = <<>>
  /\ visited = {}
  /\ begun = {}

\* The dump program is started on a command line.
DumpInit ==
  /\ args \in CommandLines
  /\ stdin \in (IF args = <<>> THEN Documents ELSE {NotArchive})
  /\ DumpStart
  /\ CorrOff

\* What a step of main or print leaves alone when it prints nothing and
\* calls nothing, the correlation program's state included.
quiet == <<args, stdin, stack, out, visited, corrVars>>

\* main.go:30-33: standard input is read when no file is named.
DumpMain ==
  /\ dpc = "main"
  /\ IF Len(args) = 0 THEN dpc' = "decode" /\ fi' = 0 ELSE dpc' = "open" /\ fi' = 1
  /\ UNCHANGED <<ei, left, request, begun>>
  /\ UNCHANGED quiet

\* main.go:34-37: os.Open(fpath); an error panics.
DumpOpen ==
  /\ dpc = "open"
  /\ begun' = begun \cup {fi}
  /\ dpc' = IF args[fi].kind = "missing" THEN "crashed" ELSE "decode"
  /\ UNCHANGED <<fi, ei, left, request>>
  /\ UNCHANGED quiet

\* The document print reads.
Reader == IF fi = 0 THEN stdin ELSE args[fi]

\* main.go:122-124: the archive is decoded; an error panics.
DumpDecode ==
  /\ dpc = "decode"
  /\ IF Reader.kind # "har" THEN dpc' = "crashed" /\ ei' = ei
     ELSE dpc' = "entry" /\ ei' = 1
  /\ UNCHANGED <<fi, left, request, begun>>
  /\ UNCHANGED quiet

\* main.go:126-133: makeRequest; the URL is printed without its query.
makeRequest(requestMethod, u) ==
  requestMethod \o <<32>> \o URLString([u EXCEPT !.rawQuery = <<>>])

\* main.go:134-135: the next entry; a URL that does not parse panics.
DumpEntry ==
  /\ dpc = "entry"
  /\ stack = <<>>
  /\ ei <= Len(Reader.entries)
  /\ LET entry == Reader.entries[ei]
     IN  \E u \in {ParseURL(entry.url)} :
           IF u.err THEN dpc' = "crashed" /\ UNCHANGED <<request, left>>
           ELSE /\ dpc' = "query"
                /\ request' = makeRequest(entry.method, u)
                /\ left' = entry.queryString
  /\ UNCHANGED <<fi, ei, begun>>
  /\ UNCHANGED quiet

\* main.go:137-143: printParam(makeKey("query", name), value, request) per
\* query parameter.
DumpQuery ==
  /\ dpc = "query"
  /\ stack = <<>>
  /\ IF left = <<>>
     THEN /\ left' = Reader.entries[ei].params
          /\ dpc' = "form"
          /\ UNCHANGED <<stack, out, visited>>
     ELSE /\ printParam(stack, makeKey(SegQuery, Head(left).name), Head(left).value)
          /\ left' = Tail(left)
          /\ dpc' = dpc
  /\ UNCHANGED <<args, stdin, fi, ei, request, begun, corrVars>>

\* main.go:144-150: printParam(makeKey("form", name), value, request) per form
\* parameter.
DumpForm ==
  /\ dpc = "form"
  /\ stack = <<>>
  /\ IF left = <<>>
     THEN /\ dpc' = "body"
          /\ UNCHANGED <<left, stack, out, visited>>
     ELSE /\ printParam(stack, makeKey(SegForm, Head(left).name), Head(left).value)
          /\ left' = Tail(left)
          /\ dpc' = dpc
  /\ UNCHANGED <<args, stdin, fi, ei, request, begun, corrVars>>

\* main.go:151: printParamRecurse("body", text, request); then the next entry.
DumpBody ==
  /\ dpc = "body"
  /\ stack = <<>>
  /\ printParamRecurse(stack, SegBody, Reader.entries[ei].text)
  /\ dpc' = "entry"
  /\ ei' = ei + 1
  /\ UNCHANGED <<args, stdin, fi, left, request, out, begun, corrVars>>

\* main.go:134, 153, 33, 44: print returns; main takes the next file or
\* returns.
DumpReturn ==
  /\ dpc = "entry"
  /\ stack = <<>>
  /\ ei > Len(Reader.entries)
  /\ IF fi = 0 \/ fi = Len(args) THEN dpc' = "done" /\ fi' = fi
     ELSE dpc' = "open" /\ fi' = fi + 1
  /\ UNCHANGED <<ei, left, request, begun>>
  /\ UNCHANGED quiet

\* What a step of printParamRecurse leaves alone whatever it does.
inCall == <<args, stdin, dpc, fi, ei, left, request, begun, corrVars>>

\* main.go:68-69: json.Unmarshal([]byte(value), &valueMap).
RecurseMap ==
  /\ At("map")
  /\ \E um \in {UnmarshalMap(Frame.value)} :
       stack' = Caller([Frame EXCEPT !.pc = IF um.ok THEN "mapIter" ELSE "list",
                                     !.mapLeft = um.m])
  /\ UNCHANGED <<out, visited>>
  /\ UNCHANGED inCall

\* main.go:70-73: printParam(makeKey(key, key2), string(value2), request) per
\* key of the map, in the order the range happens to take; then return.
RecurseMapIter ==
  /\ At("mapIter")
  /\ IF DOMAIN Frame.mapLeft = {}
     THEN stack' = Return /\ UNCHANGED <<out, visited>>
     ELSE \E key2 \in DOMAIN Frame.mapLeft :
            printParam(Caller([Frame EXCEPT !.mapLeft =
                                 [k \in DOMAIN Frame.mapLeft \ {key2} |-> Frame.mapLeft[k]]]),
                       makeKey(Frame.key, key2), Frame.mapLeft[key2])
  /\ UNCHANGED inCall

\* main.go:77-78: json.Unmarshal([]byte(value), &valueList).
RecurseList ==
  /\ At("list")
  /\ \E ul \in {UnmarshalList(Frame.value)} :
       stack' = Caller([Frame EXCEPT !.pc = IF ul.ok THEN "listIter" ELSE "string",
                                     !.listLeft = ul.l])
  /\ UNCHANGED <<out, visited>>
  /\ UNCHANGED inCall

\* main.go:79-82: printParam(key + "[]", string(value2), request) per element;
\* then return.
RecurseListIter ==
  /\ At("listIter")
  /\ IF Frame.listLeft = <<>>
     THEN stack' = Return /\ UNCHANGED <<out, visited>>
     ELSE printParam(Caller([Frame EXCEPT !.listLeft = Tail(@)]),
                     ListKey(Frame.key), Head(Frame.listLeft))
  /\ UNCHANGED inCall

\* main.go:86-90: a JSON string is decoded unquoted under the same key, by
\* printParamRecurse itself; then return.
RecurseString ==
  /\ At("string")
  /\ \E us \in {UnmarshalString(Frame.value)} :
       IF us.ok
       THEN printParamRecurse(Caller([Frame EXCEPT !.pc = "ret"]), Frame.key, us.str)
       ELSE stack' = Caller([Frame EXCEPT !.pc = "b64"]) /\ UNCHANGED visited
  /\ UNCHANGED out
  /\ UNCHANGED inCall

\* main.go:93: err == nil && 0 < len(bytes) && isPrint(string(bytes)).
Base64Text(d) == ~d.err /\ 0 < Len(d.bytes) /\ isPrint(d.bytes)

\* main.go:93-97: a base64 text is printed and decoded under the same key;
\* the function returns either way.
RecurseBase64 ==
  /\ At("b64")
  /\ \E d \in {DecodeString(Frame.value)} :
       IF Base64Text(d)
       THEN printParam(Caller([Frame EXCEPT !.pc = "ret"]), Frame.key, d.bytes)
       ELSE stack' = Return /\ UNCHANGED <<out, visited>>
  /\ UNCHANGED inCall

\* main.go:89, 95: the call returns after the call it made.
RecurseReturn ==
  /\ At("ret")
  /\ stack' = Return
  /\ UNCHANGED <<out, visited>>
  /\ UNCHANGED inCall

\* The correlation program is started on an archive.
CorrInit ==
  /\ har \in Archives
  /\ domainsFlag \in DomainFlags
  /\ CorrStart
  /\ DumpOff

DumpNext ==
  \/ DumpMain \/ DumpOpen \/ DumpDecode \/ DumpEntry \/ DumpQuery \/ DumpForm
  \/ DumpBody \/ DumpReturn
  \/ RecurseMap \/ RecurseMapIter \/ RecurseList \/ RecurseListIter
  \/ RecurseString \/ RecurseBase64 \/ RecurseReturn

(***************************************************************************)
(* Specifications                                                          *)
(***************************************************************************)

\* The correlation program on every archive and allow-list.
SpecCorr == CorrInit /\ [][CorrNext]_vars

\* The dump program on every command line.
SpecDump == DumpInit /\ [][DumpNext]_vars

\* Either program on one source: an archive of one entry, or one file or
\* standard input.
DecodeInit ==
  \/ /\ har \in [1..1 -> Entries]
     /\ domainsFlag \in DomainFlags
     /\ CorrStart
     /\ DumpOff
  \/ /\ args \in {<<>>} \cup [1..1 -> Documents \cup {Missing}]
     /\ stdin \in (IF args = <<>> THEN Documents ELSE {NotArchive})
     /\ DumpStart
     /\ CorrOff

Next == CorrNext \/ DumpNext

\* The Go scheduler runs a goroutine that can run: a step is taken while one
\* can be.
SpecDecode == DecodeInit /\ [][Next]_vars /\ WF_vars(Next)

(***************************************************************************)
(* Properties of correlation mode                                          *)
(***************************************************************************)

\* The search calls of entry e, the calls a call made, and the calls main
\* has received the leaf of.
Calls(e) == 1..Len(calls[e])

Children(e, id) == {c \in Calls(e) : calls[e][c].parent = id}

Received(e) == {recv[e][k].id : k \in 1..Len(recv[e])}

\* The searches the goroutine of an entry starts, in order.
Tasks(entry) ==
  [k \in 1..Len(entry.queryString) |->
     [path |-> <<SegQuery, entry.queryString[k].name>>, value |-> entry.queryString[k].value]]
    \o [k \in 1..Len(entry.params) |->
          [path |-> <<SegForm, entry.params[k].name>>, value |-> entry.params[k].value]]
    \o <<[path |-> <<SegBody>>, value |-> entry.text]>>

\* The calls of entry e made by its goroutine itself, in order.
RECURSIVE RootsFrom(_, _)
RootsFrom(e, c) ==
  IF c > Len(calls[e]) THEN <<>>
  ELSE (IF calls[e][c].parent = 0
        THEN <<[path |-> calls[e][c].path, value |-> calls[e][c].value]>> ELSE <<>>)
         \o RootsFrom(e, c + 1)

\* The hosts of the allow-list, and the entries of the archive it lets pass.
AllowList == {Fields(domainsFlag)[d] : d \in 1..Len(Fields(domainsFlag))}

Passes(entry) == AllowList = {} \/ ParseURL(entry.url).host \in AllowList

RECURSIVE PassingFrom(_)
PassingFrom(e) ==
  IF e > Len(har) THEN <<>>
  ELSE (IF Passes(har[e]) THEN <<[method |-> har[e].method, url |-> har[e].url]>> ELSE <<>>)
         \o PassingFrom(e + 1)

\* C2: a leaf that main holds still has, as its Key, the path its search was
\* called with: the parent's path plus the leaf's own key or index.
C2_KeyPathImmutable ==
  /\ mainpc = "recv" =>
       \A k \in 1..Len(keyValues) :
         Segments(heap, keyValues[k].key) = calls[i][keyValues[k].id].path
  /\ \A r \in 1..Len(results) : \A k \in 1..Len(results[r].xss) :
       Segments(heap, results[r].xss[k].key)
         = calls[results[r].entry][results[r].xss[k].id].path

\* A text that is no JSON object, array or string and no valid base64.
Plain(v) ==
  /\ ~UnmarshalMap(v).ok
  /\ ~UnmarshalList(v).ok
  /\ ~UnmarshalString(v).ok
  /\ DecodeString(v).err

\* C3: a search of a text that is no JSON object, array or string and no
\* valid base64 calls no further search: its own leaf is the only one.
C3_PlainStringOneLeaf ==
  \A e \in DOMAIN calls : \A c \in Calls(e) :
    Plain(calls[e][c].value) => Children(e, c) = {}

\* C4: no leaf of the output has the empty string for its value.
C4_NoEmptyLeafReported ==
  \A r \in 1..Len(stdout) : \A k \in 1..Len(stdout[r].xss) :
    stdout[r].xss[k].value # <<>>

\* The leaf ["form", "n", "k"] with value s.
FormLeaf == [key |-> <<SegForm, NameN, Str(<<"k">>)>>, value |-> Str(<<"s">>)]

\* C5: when the program has finished, the result of an entry with a form
\* parameter n whose value is the base64 of {"k":"s"}, and a response that
\* holds s, has the leaf ["form", "n", "k"] with value s.
C5_NestedPathComposition ==
  mainpc = "done" =>
    \A r \in 1..Len(results) :
      LET entry == har[results[r].entry]
      IN  (/\ \E k \in 1..Len(entry.params) : entry.params[k] = Param(NameN, VB64Obj)
           /\ Contains(DecodeString(entry.respText).bytes, Str(<<"s">>)))
            => \E k \in 1..Len(stdout[r].xss) : stdout[r].xss[k] = FormLeaf

\* C5's case: the program finished and printed that leaf.
C5_Witness ==
  /\ mainpc = "done"
  /\ \E r \in 1..Len(stdout) : \E k \in 1..Len(stdout[r].xss) : stdout[r].xss[k] = FormLeaf

\* The results of the output without their leaves.
Reported == [r \in 1..Len(stdout) |-> [method |-> stdout[r].method, url |-> stdout[r].url]]

C9_ExactlyOnceDelivery ==
  \A e \in DOMAIN recv :
    /\ \A k \in 1..Len(recv[e]) :
         /\ recv[e][k].id \in Calls(e)
         /\ recv[e][k].key = calls[e][recv[e][k].id].path
         /\ recv[e][k].value = calls[e][recv[e][k].id].value
         /\ \A k2 \in 1..Len(recv[e]) : recv[e][k2].id = recv[e][k].id => k2 = k
         /\ \A c \in Children(e, recv[e][k].id) :
              \E k2 \in 1..(k - 1) : recv[e][k2].id = c
    /\ (chains[e] # <<>> /\ chains[e][1].st = "closed") =>
         /\ Received(e) = Calls(e)
         /\ RootsFrom(e, 1) = Tasks(har[e])
    /\ (\E r \in 1..Len(results) : results[r].entry = e) =>
         (chains[e] # <<>> /\ chains[e][1].st = "closed")

\* C10: no goroutine is left sending on the channel of an entry main has
\* passed, and none has read the loop variable after main moved on.
C10_ProducersFinish ==
  /\ \A e \in DOMAIN chains : (e < i /\ chains[e] # <<>>) => chains[e][1].st # "fwd"
  /\ stale = {}

(***************************************************************************)
(* Properties of the decoders                                              *)
(***************************************************************************)

\* No search is called on the path and value of its caller, none is called
\* by a search of the empty string, and the calls open at once stay under
\* the bound.
SearchDescends ==
  \A e \in DOMAIN calls :
    /\ Len(chains[e]) < MaxDepth
    /\ \A c \in Calls(e) :
         /\ calls[e][c].value = <<>> => Children(e, c) = {}
         /\ calls[e][c].parent # 0 =>
              \/ calls[e][c].value # calls[e][calls[e][c].parent].value
              \/ calls[e][c].path # calls[e][calls[e][c].parent].path

\* The same of printParamRecurse.
PrintDescends ==
  /\ Len(stack) < MaxDepth
  /\ \A k \in 1..(Len(stack) - 1) :
       /\ stack[k].value # <<>>
       /\ stack[k + 1].value # stack[k].value \/ stack[k + 1].key # stack[k].key

\* The program that runs has ended.
Stopped == mainpc \in {"done", "panic"} \/ dpc \in {"done", "crashed"}

\* C1: in both programs decoding never descends into the value it came from
\* nor into anything from the empty string, and the program ends.
C1_DecodingTerminates == [](SearchDescends /\ PrintDescends) /\ <>Stopped

\* C1's case: the correlation program ended having received the leaf of a
\* search of the empty string, which called no search.
C1_Witness ==
  /\ mainpc = "done"
  /\ \E e \in DOMAIN calls : \E c \in Calls(e) :
       calls[e][c].value = <<>> /\ c \in Received(e) /\ Children(e, c) = {}

(***************************************************************************)
(* Properties of dump mode                                                 *)
(***************************************************************************)

\* C7: every key and value printParamRecurse was called with has been
\* printed as a block.
C7_EveryVisitedPrinted ==
  \A p \in visited : \E k \in 1..Len(out) : out[k].key = p[1] /\ out[k].value = p[2]

\* C8: when a run on several files has ended, main went to open every one
\* of them.
C8_FailureAbortsOnlyThatSource ==
  (Len(args) >= 2 /\ dpc \in {"done", "crashed"}) => begun = 1..Len(args)

=============================================================================
